---- MODULE Spec2Model ----
(***************************************************************************)
(* The job-information form of intellimock-app: the react-hook-form values *)
(* validated by jobInfoSchema, the resume upload / extraction workflow of  *)
(* JobInfoForm (handleResumeUpload, clearResume, addTechnology,            *)
(* removeTechnology, onSubmit) and the controls that enable or disable     *)
(* them.                                                                   *)
(***************************************************************************)
EXTENDS Integers, Sequences, FiniteSets, TLC

(***************************************************************************)
(* Bounds of the model.                                                    *)
(***************************************************************************)
\* longest description typed into the form
MaxTextLen == 1
\* longest text of a draft handed to the schema on its own
MaxDraftLen == 2
\* longest skills array the extraction service returns
MaxSkills == 2
\* longest technology list handed to addTechnology on its own
MaxListLen == 3

(***************************************************************************)
(* Value domains.                                                          *)
(***************************************************************************)
\* characters of a text field: one whitespace character, one other
Chars == {" ", "a"}

Whitespace == {" "}

Texts == UNION {[1..n -> Chars] : n \in 0..MaxTextLen}

\* what is typed into the name input and the title input
NameTexts == {<<>>, <<" ">>, <<"a">>}

TitleTexts == {<<>>, <<"a">>}

DraftTexts == UNION {[1..n -> Chars] : n \in 0..MaxDraftLen}

\* title: string | null
NullTitle == [null |-> TRUE, text |-> <<>>]

StringTitle(t) == [null |-> FALSE, text |-> t]

\* the enum of @/drizzle/schema (two of its members)
experienceLevels == {"junior", "senior"}

\* the options of the manual Select (two of the fifteen)
AVAILABLE_TECHNOLOGIES == {"React", "Python"}

\* the names the extraction service reports
SkillNames == {"Python", "Go"}

SkillLists == UNION {[1..n -> SkillNames] : n \in 0..MaxSkills}

\* useState<File | null>(null)
NoFile == [name |-> "", type |-> ""]

\* the files a user may select
Files == {[name |-> "cv.pdf", type |-> "application/pdf"],
          [name |-> "cv.txt", type |-> "text/plain"]}

\* hasResume: z.boolean().optional()
HasResumeValues == {"true", "false", "undefined"}

(***************************************************************************)
(* Responses of fetch("/api/parse-resume").                                *)
(*   kind     "reject": fetch throws; "http": a response arrived           *)
(*   ok       response.ok                                                  *)
(*   body     "invalid": response.json() throws; "null": JSON null;        *)
(*            "object": any other JSON value                               *)
(*   field    data.skills: "absent", "other" (present, truthy, not an      *)
(*            array) or "array"                                            *)
(*   skills   the array when field = "array"                               *)
(***************************************************************************)
Resp(k, o, b, f, s) == [kind |-> k, ok |-> o, body |-> b, field |-> f, skills |-> s]

NoResponse == Resp("none", FALSE, "invalid", "absent", <<>>)

Responses ==
    {Resp("reject", FALSE, "invalid", "absent", <<>>),
     Resp("http", FALSE, "object", "absent", <<>>),
     Resp("http", TRUE, "invalid", "absent", <<>>),
     Resp("http", TRUE, "null", "absent", <<>>),
     Resp("http", TRUE, "object", "absent", <<>>),
     Resp("http", TRUE, "object", "other", <<>>)}
    \cup {Resp("http", TRUE, "object", "array", s) : s \in SkillLists}

(***************************************************************************)
(* The relay endpoint POST /api/parse-resume and the extraction backend    *)
(* it forwards to.                                                         *)
(***************************************************************************)
\* what request.formData() and formData.get("file") give: "unreadable" the
\* body is no form data and formData() throws; "absent" no "file" entry;
\* "string" the entry is a string; "file" the entry is a File
RelayRequests == {"unreadable", "absent", "string", "file"}

\* a body as JSON text: "invalid" does not parse, "null" is null, "object"
\* is an object with or without a skills member and an error member; spaced
\* texts carry insignificant white space
JsonText(t, f, s, e, sp) ==
    [text |-> t, field |-> f, skills |-> s, error |-> e, spaced |-> sp]

EmptyText == JsonText("invalid", "absent", <<>>, "", FALSE)

BackendTexts ==
    {EmptyText}
    \cup {JsonText("null", "absent", <<>>, "", sp) : sp \in BOOLEAN}
    \cup {JsonText("object", "absent", <<>>, e, sp) :
              e \in {"", "No resume uploaded"}, sp \in BOOLEAN}
    \cup {JsonText("object", "other", <<>>, "", sp) : sp \in BOOLEAN}
    \cup {JsonText("object", "array", s, "", sp) : s \in SkillLists, sp \in BOOLEAN}

\* the statuses a Response cannot be built with when a body is given
NullBodyStatuses == {204, 205, 304}

\* the statuses the backend may answer with
BackendStatuses == {200, 201, 204, 304, 400, 404, 500}

\* response.ok
Ok(status) == status >= 200 /\ status <= 299

BackendOutcome(k, st, b) == [kind |-> k, status |-> st, body |-> b]

\* fetch to the backend rejects
BackendUnreachable == BackendOutcome("reject", 0, EmptyText)

\* a null-body status comes with an empty body
BackendOutcomes ==
    {BackendUnreachable}
    \cup {BackendOutcome("http", st, EmptyText) :
              st \in BackendStatuses \cap NullBodyStatuses}
    \cup {BackendOutcome("http", st, b) :
              st \in BackendStatuses \ NullBodyStatuses, b \in BackendTexts}

RelayReply(th, st, b) == [thrown |-> th, status |-> st, body |-> b]

NoReply == RelayReply(FALSE, 0, EmptyText)

\* no request has reached the endpoint
NoRelay == [request |-> "none", backend |-> BackendUnreachable, reply |-> NoReply]

VARIABLES
    name,             \* form value
    title,            \* form value
    experienceLevel,  \* form value
    technologies,     \* form value
    description,      \* form value
    hasResume,        \* form value
    resumeFile,       \* useState<File | null>
    isParsingResume,  \* useState(false)
    useResumeMode,    \* useState(false)
    inflight,         \* the fetch calls of handleResumeUpload awaiting a response
    toast,            \* the last notification shown
    errors,           \* formState.errors: the issues of the last validation
    isSubmitting,     \* formState.isSubmitting: onSubmit awaits the action
    lastEvent,        \* the last event handled and its input
    relay             \* the relay endpoint: its request, the backend's answer, its reply

vars == <<name, title, experienceLevel, technologies, description, hasResume,
          resumeFile, isParsingResume, useResumeMode, inflight, toast, errors,
          isSubmitting, lastEvent, relay>>

fields == <<name, title, experienceLevel, description>>

resumeState == <<resumeFile, isParsingResume, useResumeMode>>

submitState == <<errors, isSubmitting>>

\* lastEvent: the event, the file or technology it carries, the response it
\* delivers, and whether a later request had superseded the answered one
Event(o, f, r, st, t) ==
    [op |-> o, file |-> f, response |-> r, stale |-> st, tech |-> t]

(***************************************************************************)
(* Pure helpers.                                                           *)
(***************************************************************************)
RECURSIVE TrimStart(_)
\* String.prototype.trim, leading part
TrimStart(s) ==
    IF s # <<>> /\ Head(s) \in Whitespace THEN TrimStart(Tail(s)) ELSE s

RECURSIVE TrimEnd(_)
\* String.prototype.trim, trailing part
TrimEnd(s) ==
    IF s # <<>> /\ s[Len(s)] \in Whitespace
    THEN TrimEnd(SubSeq(s, 1, Len(s) - 1))
    ELSE s

\* a schema that forgets to trim
Untrimmed(s) == s

Trim(s) == TrimEnd(TrimStart(s))

\* Array.prototype.includes
Includes(list, x) == \E i \in DOMAIN list : list[i] = x

\* !data.hasResume
NotHasResume(h) == h # "true"

(***************************************************************************)
(* jobInfoSchema: the set of issues <<path, message>> reported on a draft   *)
(* whose values have the declared types.                                   *)
(***************************************************************************)
\* a name rule that trims before measuring
NameIssuesTrimmed(d) ==
    IF Len(Trim(d.name)) >= 1 THEN {} ELSE {<<"name", "Required">>}

NameIssues(d) ==
    IF Len(d.name) >= 1 THEN {} ELSE {<<"name", "Required">>}

\* a title rule without min(1)
TitleIssuesNone(d) == {}

TitleIssues(d) ==
    IF d.title.null \/ Len(d.title.text) >= 1
    THEN {}
    ELSE {<<"title", "String must contain at least 1 character(s)">>}

ExperienceLevelIssues(d) ==
    IF d.experienceLevel \in experienceLevels
    THEN {}
    ELSE {<<"experienceLevel", "Invalid enum value">>}

DescriptionRequired(d) ==
    NotHasResume(d.hasResume)
        /\ (d.description = <<>> \/ Len(Trim(d.description)) = 0)

DescriptionIssues(d) ==
    IF DescriptionRequired(d) THEN {<<"description", "Required">>} ELSE {}

jobInfoSchema(d) ==
    NameIssues(d) \cup TitleIssues(d) \cup ExperienceLevelIssues(d)
        \cup DescriptionIssues(d)

\* form.getValues()
Values ==
    [name |-> name, title |-> title, experienceLevel |-> experienceLevel,
     technologies |-> technologies, description |-> description,
     hasResume |-> hasResume]

(***************************************************************************)
(* What the rendered controls allow.                                       *)
(***************************************************************************)
\* a file input that offers no "Change Resume"
FileInputDisabledWithFile == ~isParsingResume /\ resumeFile = NoFile

\* a submit button that is never disabled
SubmitNeverDisabled == TRUE

\* a file input that is never disabled
FileInputNeverDisabled == TRUE

\* a file input disabled by the wrong flag
FileInputDisabledBySubmit == ~isSubmitting

\* <Input type="file" disabled={isParsingResume}>
FileInputEnabled == ~isParsingResume

\* a clear button that stays enabled while parsing
ClearResumeNeverDisabled == resumeFile # NoFile

\* {resumeFile && <Button onClick={clearResume} disabled={isParsingResume}>}
ClearResumeEnabled == resumeFile # NoFile /\ ~isParsingResume

\* manual controls that are never disabled
ManualControlsNeverDisabled == TRUE

\* manual controls that are released while the extraction is pending
ManualControlsEnabledWhileParsing == ~useResumeMode \/ isParsingResume

\* <Select disabled={useResumeMode}>, <button disabled={useResumeMode}>
ManualControlsEnabled == ~useResumeMode

\* AVAILABLE_TECHNOLOGIES.filter((tech) => !selectedTechs.includes(tech))
SelectOptions == {t \in AVAILABLE_TECHNOLOGIES : ~Includes(technologies, t)}

\* one remove button per badge of selectedTechs
RemoveOptions == {technologies[i] : i \in DOMAIN technologies}

\* <Button disabled={form.formState.isSubmitting} type="submit">
SubmitEnabled == ~isSubmitting

\* the capture state the flags encode
CaptureState ==
    IF isParsingResume THEN "resumePending"
    ELSE IF useResumeMode THEN "resumeApplied"
    ELSE "manual"

(***************************************************************************)
(* Initial state: a new form, or a form editing an existing record.        *)
(***************************************************************************)
NewFormValues ==
    [name |-> <<>>, title |-> NullTitle, experienceLevel |-> "junior",
     technologies |-> <<>>, description |-> <<>>, hasResume |-> "false"]

\* the records the edit page passes as jobInfo; they carry no hasResume
ExistingJobInfos ==
    [name : NameTexts \ {<<>>}, title : {NullTitle}, experienceLevel : experienceLevels,
     technologies : {<<>>, <<"React">>}, description : Texts,
     hasResume : {"undefined"}]

Init ==
    /\ \E v \in {NewFormValues} \cup ExistingJobInfos :
        /\ name = v.name
        /\ title = v.title
        /\ experienceLevel = v.experienceLevel
        /\ technologies = v.technologies
        /\ description = v.description
        /\ hasResume = v.hasResume
    /\ resumeFile = NoFile
    /\ isParsingResume = FALSE
    /\ useResumeMode = FALSE
    /\ inflight = {}
    /\ toast = "none"
    /\ errors = {}
    /\ isSubmitting = FALSE
    /\ relay = NoRelay
    /\ lastEvent = Event("mount", NoFile, NoResponse, FALSE, "")

(***************************************************************************)
(* Field edits.                                                            *)
(***************************************************************************)
EditEvent == Event("edit", NoFile, NoResponse, FALSE, "")

\* <Input {...field} /> of name
SetName(t) ==
    /\ name' = t
    /\ UNCHANGED relay
    /\ lastEvent' = EditEvent
    /\ UNCHANGED <<title, experienceLevel, technologies, description, hasResume,
                   resumeState, inflight, toast, submitState>>

\* field.onChange(e.target.value || null)
TitleOf(t) == IF t = <<>> THEN NullTitle ELSE StringTitle(t)

SetTitle(t) ==
    /\ title' = TitleOf(t)
    /\ UNCHANGED relay
    /\ lastEvent' = EditEvent
    /\ UNCHANGED <<name, experienceLevel, technologies, description, hasResume,
                   resumeState, inflight, toast, submitState>>

\* <Select onValueChange={field.onChange}> over experienceLevels
SetExperienceLevel(l) ==
    /\ experienceLevel' = l
    /\ UNCHANGED relay
    /\ lastEvent' = EditEvent
    /\ UNCHANGED <<name, title, technologies, description, hasResume,
                   resumeState, inflight, toast, submitState>>

\* <Textarea {...field} /> of description
SetDescription(t) ==
    /\ description' = t
    /\ UNCHANGED relay
    /\ lastEvent' = EditEvent
    /\ UNCHANGED <<name, title, experienceLevel, technologies, hasResume,
                   resumeState, inflight, toast, submitState>>

(***************************************************************************)
(* Manual technology selection.                                            *)
(***************************************************************************)
\* an addTechnology without the includes check
AlwaysAppended(currentTechs, tech) == Append(currentTechs, tech)

\* the list addTechnology stores
AddedTechnologies(currentTechs, tech) ==
    IF ~Includes(currentTechs, tech) THEN Append(currentTechs, tech) ELSE currentTechs

\* the list removeTechnology stores
RemovedTechnologies(currentTechs, tech) ==
    SelectSeq(currentTechs, LAMBDA t : t # tech)

addTechnology(tech) ==
    /\ ManualControlsEnabled
    /\ tech \in SelectOptions
    /\ technologies' = AddedTechnologies(technologies, tech)
    /\ UNCHANGED relay
    /\ lastEvent' = Event("add", NoFile, NoResponse, FALSE, tech)
    /\ UNCHANGED <<fields, hasResume, resumeState, inflight, toast, submitState>>

removeTechnology(tech) ==
    /\ ManualControlsEnabled
    /\ tech \in RemoveOptions
    /\ technologies' = RemovedTechnologies(technologies, tech)
    /\ UNCHANGED relay
    /\ lastEvent' = Event("remove", NoFile, NoResponse, FALSE, tech)
    /\ UNCHANGED <<fields, hasResume, resumeState, inflight, toast, submitState>>

(***************************************************************************)
(* handleResumeUpload, up to the await of fetch.                           *)
(***************************************************************************)
\* a type check that lets every file through
AnyFileType(file) == TRUE

\* file.type !== "application/pdf" is false
IsPdf(file) == file.type = "application/pdf"

\* a request awaiting its response; stale once a later request was issued
Request(file) == [file |-> file, stale |-> FALSE]

Superseded(reqs) == {[r EXCEPT !.stale = TRUE] : r \in reqs}

handleResumeUpload(file) ==
    /\ FileInputEnabled
    /\ UNCHANGED relay
    /\ lastEvent' = Event("select", file, NoResponse, FALSE, "")
    /\ IF file = NoFile
       THEN UNCHANGED <<hasResume, resumeState, inflight, toast>>
       ELSE IF ~IsPdf(file)
       THEN /\ toast' = "error"
            /\ UNCHANGED <<hasResume, resumeState, inflight>>
       ELSE /\ resumeFile' = file
            /\ isParsingResume' = TRUE
            /\ useResumeMode' = TRUE
            /\ hasResume' = "true"
            /\ inflight' = Superseded(inflight) \cup {Request(file)}
            /\ UNCHANGED toast
    /\ UNCHANGED <<fields, technologies, submitState>>

(***************************************************************************)
(* handleResumeUpload, from the resolution of fetch to the end.            *)
(***************************************************************************)
\* a handler that also throws when the body carries no skills array
ThrowsOnMissingSkills(r) ==
    r.kind = "reject" \/ ~r.ok \/ r.body = "invalid" \/ r.body = "null"
        \/ r.field # "array"

\* the try block throws: fetch rejects, !response.ok, response.json()
\* rejects, or data is null and data.skills throws
ResponseThrows(r) ==
    r.kind = "reject" \/ ~r.ok \/ r.body = "invalid" \/ r.body = "null"

\* data.skills && Array.isArray(data.skills)
SkillsUsable(r) == r.field = "array"

\* a handler that merges the extracted skills into the current list
MergedTechnologies(currentTechs, skills) == currentTechs \o skills

\* the value form.setValue("technologies", data.skills) stores
ExtractedTechnologies(currentTechs, skills) == skills

\* a handler without the finally block: the flag is reset on success only
HandleResponseNoFinally(req, r) ==
    /\ req \in inflight
    /\ inflight' = inflight \ {req}
    /\ UNCHANGED relay
    /\ lastEvent' = Event("response", req.file, r, req.stale, "")
    /\ IF ResponseThrows(r)
       THEN /\ toast' = "error"
            /\ useResumeMode' = FALSE
            /\ resumeFile' = NoFile
            /\ UNCHANGED <<technologies, isParsingResume>>
       ELSE IF SkillsUsable(r)
       THEN /\ technologies' = ExtractedTechnologies(technologies, r.skills)
            /\ toast' = "success"
            /\ isParsingResume' = FALSE
            /\ UNCHANGED <<useResumeMode, resumeFile>>
       ELSE /\ toast' = "warning"
            /\ isParsingResume' = FALSE
            /\ UNCHANGED <<technologies, useResumeMode, resumeFile>>
    /\ UNCHANGED <<fields, hasResume, submitState>>

\* a handler whose catch block also empties the technology list
HandleResponseClearing(req, r) ==
    /\ req \in inflight
    /\ inflight' = inflight \ {req}
    /\ UNCHANGED relay
    /\ lastEvent' = Event("response", req.file, r, req.stale, "")
    /\ IF ResponseThrows(r)
       THEN /\ toast' = "error"
            /\ useResumeMode' = FALSE
            /\ resumeFile' = NoFile
            /\ technologies' = <<>>
       ELSE IF SkillsUsable(r)
       THEN /\ technologies' = ExtractedTechnologies(technologies, r.skills)
            /\ toast' = "success"
            /\ UNCHANGED <<useResumeMode, resumeFile>>
       ELSE /\ toast' = "warning"
            /\ UNCHANGED <<technologies, useResumeMode, resumeFile>>
    /\ isParsingResume' = FALSE
    /\ UNCHANGED <<fields, hasResume, submitState>>

HandleResponse(req, r) ==
    /\ req \in inflight
    /\ inflight' = inflight \ {req}
    /\ UNCHANGED relay
    /\ lastEvent' = Event("response", req.file, r, req.stale, "")
    /\ IF ResponseThrows(r)
       THEN /\ toast' = "error"
            /\ useResumeMode' = FALSE
            /\ resumeFile' = NoFile
            /\ UNCHANGED technologies
       ELSE IF SkillsUsable(r)
       THEN /\ technologies' = ExtractedTechnologies(technologies, r.skills)
            /\ toast' = "success"
            /\ UNCHANGED <<useResumeMode, resumeFile>>
       ELSE /\ toast' = "warning"
            /\ UNCHANGED <<technologies, useResumeMode, resumeFile>>
    /\ isParsingResume' = FALSE
    /\ UNCHANGED <<fields, hasResume, submitState>>

(***************************************************************************)
(* clearResume.                                                            *)
(***************************************************************************)
\* a clearResume that forgets setUseResumeMode(false)
clearResumeKeepingMode ==
    /\ ClearResumeEnabled
    /\ resumeFile' = NoFile
    /\ technologies' = <<>>
    /\ hasResume' = "false"
    /\ UNCHANGED relay
    /\ lastEvent' = Event("clear", NoFile, NoResponse, FALSE, "")
    /\ UNCHANGED <<fields, useResumeMode, isParsingResume, inflight, toast,
                   submitState>>

\* a clearResume that forgets form.setValue("hasResume", false)
clearResumeKeepingHasResume ==
    /\ ClearResumeEnabled
    /\ resumeFile' = NoFile
    /\ useResumeMode' = FALSE
    /\ technologies' = <<>>
    /\ UNCHANGED relay
    /\ lastEvent' = Event("clear", NoFile, NoResponse, FALSE, "")
    /\ UNCHANGED <<fields, hasResume, isParsingResume, inflight, toast, submitState>>

clearResume ==
    /\ ClearResumeEnabled
    /\ resumeFile' = NoFile
    /\ useResumeMode' = FALSE
    /\ technologies' = <<>>
    /\ hasResume' = "false"
    /\ UNCHANGED relay
    /\ lastEvent' = Event("clear", NoFile, NoResponse, FALSE, "")
    /\ UNCHANGED <<fields, isParsingResume, inflight, toast, submitState>>

(***************************************************************************)
(* form.handleSubmit(onSubmit): validate with the resolver, then onSubmit  *)
(* awaits createJobInfo / updateJobInfo.                                   *)
(***************************************************************************)
\* a submit that calls onSubmit whatever the resolver reports
handleSubmitUnvalidated ==
    /\ SubmitEnabled
    /\ errors' = jobInfoSchema(Values)
    /\ isSubmitting' = TRUE
    /\ UNCHANGED relay
    /\ lastEvent' = Event("submit", NoFile, NoResponse, FALSE, "")
    /\ UNCHANGED <<fields, technologies, hasResume, resumeState, inflight, toast>>

handleSubmit ==
    /\ SubmitEnabled
    /\ errors' = jobInfoSchema(Values)
    /\ isSubmitting' = (jobInfoSchema(Values) = {})
    /\ UNCHANGED relay
    /\ lastEvent' = Event("submit", NoFile, NoResponse, FALSE, "")
    /\ UNCHANGED <<fields, technologies, hasResume, resumeState, inflight, toast>>

\* an onSubmit that drops the result of the action
onSubmitResolvedSilent(error) ==
    /\ isSubmitting
    /\ isSubmitting' = FALSE
    /\ UNCHANGED relay
    /\ lastEvent' = Event(IF error THEN "saveFailed" ELSE "saved",
                          NoFile, NoResponse, FALSE, "")
    /\ UNCHANGED <<fields, technologies, hasResume, resumeState, inflight, errors,
                   toast>>

\* const res = await action(values); if (res.error) toast.error(res.message)
onSubmitResolved(error) ==
    /\ isSubmitting
    /\ isSubmitting' = FALSE
    /\ toast' = IF error THEN "error" ELSE toast
    /\ UNCHANGED relay
    /\ lastEvent' = Event(IF error THEN "saveFailed" ELSE "saved",
                          NoFile, NoResponse, FALSE, "")
    /\ UNCHANGED <<fields, technologies, hasResume, resumeState, inflight, errors>>

Next ==
    \/ \E t \in NameTexts : SetName(t)
    \/ \E t \in TitleTexts : SetTitle(t)
    \/ \E l \in experienceLevels : SetExperienceLevel(l)
    \/ \E t \in Texts : SetDescription(t)
    \/ \E tech \in AVAILABLE_TECHNOLOGIES : addTechnology(tech)
    \/ \E tech \in AVAILABLE_TECHNOLOGIES \cup SkillNames : removeTechnology(tech)
    \/ \E file \in Files \cup {NoFile} : handleResumeUpload(file)
    \/ \E req \in inflight, r \in Responses : HandleResponse(req, r)
    \/ clearResume
    \/ handleSubmit
    \/ \E error \in BOOLEAN : onSubmitResolved(error)

Spec == Init /\ [][Next]_vars

\* the fetch of every pending extraction resolves: its continuation runs
ResponseArrives == \E req \in inflight, r \in Responses : HandleResponse(req, r)

\* the steps that read or write the capture state, the technology list or the
\* submission; typing into name, title, level and description is left to Init
LiveNext ==
    \/ \E tech \in AVAILABLE_TECHNOLOGIES : addTechnology(tech)
    \/ \E tech \in AVAILABLE_TECHNOLOGIES \cup SkillNames : removeTechnology(tech)
    \/ \E file \in Files \cup {NoFile} : handleResumeUpload(file)
    \/ ResponseArrives
    \/ clearResume
    \/ handleSubmit
    \/ \E error \in BOOLEAN : onSubmitResolved(error)

SpecLive == Init /\ [][LiveNext]_vars /\ WF_vars(ResponseArrives)

TypeOK ==
    /\ name \in NameTexts
    /\ title \in {NullTitle} \cup {StringTitle(t) : t \in TitleTexts \ {<<>>}}
    /\ experienceLevel \in experienceLevels
    /\ description \in Texts
    /\ hasResume \in HasResumeValues
    /\ resumeFile \in Files \cup {NoFile}
    /\ isParsingResume \in BOOLEAN
    /\ useResumeMode \in BOOLEAN
    /\ toast \in {"none", "error", "warning", "success"}
    /\ errors \subseteq {<<"name", "Required">>, <<"description", "Required">>}
    /\ isSubmitting \in BOOLEAN

(***************************************************************************)
(* The schema on its own: a draft of the declared types is drawn, then     *)
(* validated once.                                                         *)
(***************************************************************************)
Drafts ==
    [name : DraftTexts,
     title : {NullTitle} \cup {StringTitle(t) : t \in DraftTexts},
     experienceLevel : experienceLevels,
     technologies : {<<>>, <<"Go", "Go">>},
     description : DraftTexts,
     hasResume : HasResumeValues]

SchemaInit ==
    /\ \E v \in Drafts :
        /\ name = v.name
        /\ title = v.title
        /\ experienceLevel = v.experienceLevel
        /\ technologies = v.technologies
        /\ description = v.description
        /\ hasResume = v.hasResume
    /\ resumeFile = NoFile
    /\ isParsingResume = FALSE
    /\ useResumeMode = FALSE
    /\ inflight = {}
    /\ toast = "none"
    /\ errors = {}
    /\ isSubmitting = FALSE
    /\ relay = NoRelay
    /\ lastEvent = Event("mount", NoFile, NoResponse, FALSE, "")

\* jobInfoSchema.safeParse(values), as zodResolver runs it
validateDraft ==
    /\ lastEvent.op = "mount"
    /\ errors' = jobInfoSchema(Values)
    /\ UNCHANGED relay
    /\ lastEvent' = Event("validate", NoFile, NoResponse, FALSE, "")
    /\ UNCHANGED <<fields, technologies, hasResume, resumeState, inflight, toast,
                   isSubmitting>>

SchemaNext == validateDraft

SpecSchema == SchemaInit /\ [][SchemaNext]_vars

(***************************************************************************)
(* Vocabulary of the properties.                                           *)
(***************************************************************************)
ErrorOn(path) == \E issue \in errors : issue[1] = path

AllWhitespace(s) == \A i \in DOMAIN s : s[i] \in Whitespace

NoRepeats(list) ==
    \A i, j \in DOMAIN list : i # j => list[i] # list[j]

RECURSIVE Dedupe(_)
\* each distinct name once, at the position of its first occurrence
Dedupe(list) ==
    IF list = <<>> THEN <<>>
    ELSE LET front == Dedupe(SubSeq(list, 1, Len(list) - 1))
             last == list[Len(list)]
         IN  IF Includes(front, last) THEN front ELSE Append(front, last)

\* the last event delivered the response of an extraction
ResponseHandled == lastEvent.op = "response"

\* transport failure or non-success HTTP status
ExtractionFailed(r) == r.kind = "reject" \/ (r.kind = "http" /\ ~r.ok)

\* success status, a body that parses, a skills array
ExtractionSucceeded(r) == r.kind = "http" /\ r.ok /\ r.field = "array"

\* success status, but no skills array in the body
MalformedBody(r) == r.kind = "http" /\ r.ok /\ r.field # "array"

\* success status, a JSON body other than null, but no skills array in it
MalformedObject(r) == MalformedBody(r) /\ r.body = "object"

(***************************************************************************)
(* C1. The schema reports an error on description exactly when hasResume   *)
(* is false or absent and the description is empty or all whitespace; with *)
(* hasResume true it never does.                                           *)
(***************************************************************************)
C1_DescriptionErrorIff ==
    lastEvent.op = "validate" =>
        (ErrorOn("description")
            <=> (hasResume # "true" /\ AllWhitespace(description)))

C1_Witness ==
    /\ lastEvent.op = "validate"
    /\ hasResume = "undefined"
    /\ Len(description) >= 1
    /\ AllWhitespace(description)
    /\ ErrorOn("description")

(***************************************************************************)
(* C2. After a pending extraction fails (fetch rejects or the status is    *)
(* not a success) the form is in manual mode, hasResume is back to false   *)
(* and no file is attached.                                                *)
(***************************************************************************)
C2_FailureRevertsHasResume ==
    (ResponseHandled /\ ExtractionFailed(lastEvent.response)) =>
        /\ CaptureState = "manual"
        /\ hasResume = "false"
        /\ resumeFile = NoFile

(***************************************************************************)
(* C3, as claimed. After a success response without a skills array the     *)
(* form is back in manual mode: manual controls enabled, no file attached. *)
(***************************************************************************)
C3_MalformedRevertsToManual ==
    (ResponseHandled /\ MalformedBody(lastEvent.response)) =>
        /\ CaptureState = "manual"
        /\ ManualControlsEnabled
        /\ resumeFile = NoFile

(***************************************************************************)
(* C3, amended. A success response whose body is a JSON value other than   *)
(* null and carries no skills array only raises a warning: the technology  *)
(* list, hasResume and the attached file stay as they were while pending,  *)
(* and the form rests in resume mode with the manual controls disabled.    *)
(***************************************************************************)
C3_MalformedObjectKeepsResume ==
    [][(lastEvent'.op = "response" /\ MalformedObject(lastEvent'.response)) =>
        /\ toast' = "warning"
        /\ technologies' = technologies
        /\ hasResume' = hasResume
        /\ hasResume' = "true"
        /\ resumeFile' = resumeFile
        /\ resumeFile' # NoFile
        /\ CaptureState' = "resumeApplied"
        /\ ~ManualControlsEnabled']_vars

C3_Witness ==
    /\ ResponseHandled
    /\ MalformedObject(lastEvent.response)
    /\ toast = "warning"
    /\ resumeFile # NoFile
    /\ useResumeMode

(***************************************************************************)
(* C4. After a pending extraction succeeds with result R the technology    *)
(* list is R, hasResume is true, the state is resumeApplied and the manual *)
(* add and remove controls are disabled.                                   *)
(***************************************************************************)
C4_SuccessApplied ==
    (ResponseHandled /\ ExtractionSucceeded(lastEvent.response)) =>
        /\ technologies = lastEvent.response.skills
        /\ hasResume = "true"
        /\ CaptureState = "resumeApplied"
        /\ ~ManualControlsEnabled

C4_Witness ==
    /\ ResponseHandled
    /\ lastEvent.response.skills = <<"Python", "Go">>
    /\ ExtractionSucceeded(lastEvent.response)
    /\ technologies = <<"Python", "Go">>
    /\ CaptureState = "resumeApplied"

(***************************************************************************)
(* C5. After a successful extraction the technology list holds each        *)
(* distinct name of the result once, at the position of its first          *)
(* occurrence.                                                             *)
(***************************************************************************)
C5_ResultDeduplicated ==
    (ResponseHandled /\ ExtractionSucceeded(lastEvent.response)) =>
        technologies = Dedupe(lastEvent.response.skills)

(***************************************************************************)
(* C6. The technology list never contains a repeated entry.                *)
(***************************************************************************)
C6_NoRepeatedTechnology == NoRepeats(technologies)

C8_SingleFlight == Cardinality(inflight) <= 1

C8_Witness == Cardinality(inflight) = 1 /\ isParsingResume

(***************************************************************************)
(* C9, as claimed. The resume can be cleared while an extraction is        *)
(* pending.                                                                *)
(***************************************************************************)
C9_ClearableWhilePending == isParsingResume => ENABLED clearResume

(***************************************************************************)
(* C9, amended. While an extraction is pending the resume cannot be        *)
(* cleared: no clear happens before the response is handled, and until     *)
(* then the file stays attached, resume mode stays on and hasResume stays  *)
(* true.                                                                   *)
(***************************************************************************)
C9_NoClearWhilePending ==
    [][isParsingResume =>
        /\ lastEvent'.op # "clear"
        /\ resumeFile # NoFile
        /\ useResumeMode
        /\ hasResume = "true"]_vars

C9_Witness ==
    /\ isParsingResume
    /\ resumeFile # NoFile
    /\ inflight # {}
    /\ lastEvent.op = "edit"

(***************************************************************************)
(* C10. Selecting a file that is not a PDF raises an error and changes     *)
(* nothing else: no request starts, and the capture mode, the attached     *)
(* file, hasResume and the technology list stay as they were.              *)
(***************************************************************************)
C10_InvalidTypeChangesNothing ==
    [][(/\ lastEvent'.op = "select"
        /\ lastEvent'.file # NoFile
        /\ lastEvent'.file.type # "application/pdf") =>
        /\ toast' = "error"
        /\ UNCHANGED <<inflight, resumeState, hasResume, technologies, fields>>]_vars

C10_Witness ==
    /\ lastEvent.op = "select"
    /\ lastEvent.file.type = "text/plain"
    /\ toast = "error"
    /\ CaptureState = "manual"
    /\ hasResume = "false"
    /\ inflight = {}

(***************************************************************************)
(* C11. Clearing an applied resume empties the technology list, sets       *)
(* hasResume to false, discards the file, returns the state to manual and  *)
(* re-enables the manual add and remove controls.                          *)
(***************************************************************************)
C11_ClearReturnsToManual ==
    lastEvent.op = "clear" =>
        /\ technologies = <<>>
        /\ hasResume = "false"
        /\ resumeFile = NoFile
        /\ CaptureState = "manual"
        /\ ManualControlsEnabled
        /\ SelectOptions = AVAILABLE_TECHNOLOGIES

C11_Witness ==
    /\ lastEvent.op = "clear"
    /\ technologies = <<>>
    /\ hasResume = "false"
    /\ ~useResumeMode
    /\ toast = "success"

(***************************************************************************)
(* C12. While the state is resumeApplied no manual add or remove happens,  *)
(* and the technology list changes only when the resume is cleared; the    *)
(* state is left only by clearing or by selecting a file.                  *)
(***************************************************************************)
C12_NoManualEditWhenApplied ==
    [][CaptureState = "resumeApplied" =>
        /\ lastEvent'.op \notin {"add", "remove"}
        /\ (technologies' # technologies => lastEvent'.op = "clear")
        /\ (CaptureState' # "resumeApplied" =>
                lastEvent'.op \in {"clear", "select"})]_vars

C12_Witness ==
    /\ CaptureState = "resumeApplied"
    /\ technologies = <<"Go">>
    /\ SelectOptions # {}
    /\ RemoveOptions # {}
    /\ lastEvent.op = "edit"

(***************************************************************************)
(* C13. From the start of an extraction until its response is handled no   *)
(* manual add or remove happens and the technology list does not change,   *)
(* while the other fields can still be edited.                             *)
(***************************************************************************)
C13_NoManualEditWhilePending ==
    [][isParsingResume =>
        /\ ~ManualControlsEnabled
        /\ lastEvent'.op \notin {"add", "remove"}
        /\ (lastEvent'.op # "response" => technologies' = technologies)]_vars

C13_Witness ==
    /\ isParsingResume
    /\ lastEvent.op = "edit"
    /\ description # <<>>
    /\ name # <<>>
    /\ technologies = <<"React">>

(***************************************************************************)
(* C14. createJobInfo / updateJobInfo is called only by a submit of a      *)
(* draft on which the schema reports zero errors; a submit of a draft with *)
(* any error records the errors and calls nothing.                         *)
(***************************************************************************)
C14_PersistOnlyValidDraft ==
    [][/\ ((~isSubmitting /\ isSubmitting') =>
              (lastEvent'.op = "submit" /\ jobInfoSchema(Values) = {}))
       /\ ((lastEvent'.op = "submit" /\ jobInfoSchema(Values) # {}) =>
              (~isSubmitting' /\ errors' = jobInfoSchema(Values)))]_vars

C14_Witness ==
    /\ lastEvent.op = "submit"
    /\ isSubmitting
    /\ errors = {}
    /\ jobInfoSchema(Values) = {}
    /\ CaptureState = "resumeApplied"

(***************************************************************************)
(* C15. With no resume file attached and the form in manual mode, a        *)
(* submit of a draft whose description is empty or all whitespace is       *)
(* blocked: no such draft reaches the persistence call.                    *)
(***************************************************************************)
C15_DescriptionRequiredWithoutResume ==
    (/\ lastEvent.op = "submit"
     /\ resumeFile = NoFile
     /\ CaptureState = "manual"
     /\ AllWhitespace(description)) => ~isSubmitting

(***************************************************************************)
(* C16. An extraction that does not succeed leaves name, title,            *)
(* experienceLevel, description and the technology list alone: neither the *)
(* file selection, nor any step of the pending window, nor the handling of *)
(* the response changes the technology list, and the selection and the     *)
(* handling change no field.                                               *)
(***************************************************************************)
C16_FailureKeepsFields ==
    [][/\ (lastEvent'.op = "select" => UNCHANGED <<fields, technologies>>)
       /\ ((isParsingResume /\ lastEvent'.op # "response") =>
              technologies' = technologies)
       /\ ((lastEvent'.op = "response"
                /\ ~ExtractionSucceeded(lastEvent'.response)) =>
              UNCHANGED <<fields, technologies>>)]_vars

C16_Witness ==
    /\ ResponseHandled
    /\ ExtractionFailed(lastEvent.response)
    /\ technologies = <<"React", "Python">>
    /\ name # <<>>
    /\ description # <<>>
    /\ ~title.null

(***************************************************************************)
(* C17. A persistence failure is reported and changes nothing else: every  *)
(* field, the technology list, hasResume, the attached file and the mode   *)
(* stay as they were, and the submit control is enabled again.             *)
(***************************************************************************)
C17_SaveFailureKeepsDraft ==
    [][lastEvent'.op = "saveFailed" =>
        /\ toast' = "error"
        /\ UNCHANGED <<fields, technologies, hasResume, resumeState, inflight>>
        /\ SubmitEnabled']_vars

C17_Witness ==
    /\ lastEvent.op = "saveFailed"
    /\ toast = "error"
    /\ SubmitEnabled
    /\ name # <<>>
    /\ CaptureState = "resumeApplied"

(***************************************************************************)
(* addTechnology on its own: a technology list is drawn, then the handler  *)
(* is called with any name, present or not.                                *)
(***************************************************************************)
TechNames == AVAILABLE_TECHNOLOGIES \cup SkillNames

TechLists == UNION {[1..n -> TechNames] : n \in 0..MaxListLen}

AddInit ==
    /\ technologies \in TechLists
    /\ name = NewFormValues.name
    /\ title = NewFormValues.title
    /\ experienceLevel = NewFormValues.experienceLevel
    /\ description = NewFormValues.description
    /\ hasResume = NewFormValues.hasResume
    /\ resumeFile = NoFile
    /\ isParsingResume = FALSE
    /\ useResumeMode = FALSE
    /\ inflight = {}
    /\ toast = "none"
    /\ errors = {}
    /\ isSubmitting = FALSE
    /\ relay = NoRelay
    /\ lastEvent = Event("mount", NoFile, NoResponse, FALSE, "")

\* addTechnology(tech), called directly
addTechnologyCalled(tech) ==
    /\ technologies' = AddedTechnologies(technologies, tech)
    /\ UNCHANGED relay
    /\ lastEvent' = Event("add", NoFile, NoResponse, FALSE, tech)
    /\ UNCHANGED <<fields, hasResume, resumeState, inflight, toast, submitState>>

AddNext == \E tech \in TechNames : addTechnologyCalled(tech)

SpecAdd == AddInit /\ [][AddNext]_vars

(***************************************************************************)
(* C18. Adding a name that is absent appends it at the end, the rest of    *)
(* the list unchanged; adding a name already present leaves the list as    *)
(* it is.                                                                  *)
(***************************************************************************)
C18_AddIdempotentOrdered ==
    [][lastEvent'.op = "add" =>
        IF \E i \in DOMAIN technologies : technologies[i] = lastEvent'.tech
        THEN technologies' = technologies
        ELSE /\ Len(technologies') = Len(technologies) + 1
             /\ technologies'[Len(technologies')] = lastEvent'.tech
             /\ \A i \in DOMAIN technologies :
                    technologies'[i] = technologies[i]]_vars

C18_Witness ==
    /\ lastEvent.op = "add"
    /\ lastEvent.tech = "React"
    /\ technologies = <<"React", "Go">>

(***************************************************************************)
(* C19, as claimed. The schema reports an error on name exactly when the   *)
(* name is empty after trimming whitespace.                                *)
(***************************************************************************)
C19_NameErrorIffBlank ==
    lastEvent.op = "validate" => (ErrorOn("name") <=> AllWhitespace(name))

(***************************************************************************)
(* C19, amended. The schema reports the error "Required" on name exactly   *)
(* when the name is the empty string; a name of whitespace only is         *)
(* accepted.                                                               *)
(***************************************************************************)
C19_NameErrorIffEmpty ==
    lastEvent.op = "validate" =>
        /\ (<<"name", "Required">> \in errors) <=> (Len(name) = 0)
        /\ ErrorOn("name") => Len(name) = 0

C19_Witness ==
    /\ lastEvent.op = "validate"
    /\ Len(name) >= 1
    /\ AllWhitespace(name)
    /\ ~ErrorOn("name")

(***************************************************************************)
(* C20, as claimed. The schema never reports an error on title, whether    *)
(* the title is null, the empty string or any other string.                *)
(***************************************************************************)
C20_TitleNeverError ==
    lastEvent.op = "validate" => ~ErrorOn("title")

(***************************************************************************)
(* C20, amended. The schema reports no error on title when the title is    *)
(* null or a string of at least one character, and reports an error when   *)
(* the title is the empty string.                                          *)
(***************************************************************************)
C20_TitleErrorIffEmptyString ==
    lastEvent.op = "validate" =>
        (ErrorOn("title") <=> (~title.null /\ Len(title.text) = 0))

C20_Witness ==
    /\ lastEvent.op = "validate"
    /\ ~title.null
    /\ title.text = <<>>
    /\ ErrorOn("title")

(***************************************************************************)
(* C21. A resume file is attached exactly when the form is in resume mode, *)
(* and an extraction is pending only while a file is attached and resume   *)
(* mode is on.                                                             *)
(***************************************************************************)
C21_FileIffResumeMode ==
    /\ (resumeFile # NoFile) <=> useResumeMode
    /\ isParsingResume => (resumeFile # NoFile /\ useResumeMode)
    /\ isParsingResume <=> (inflight # {})

C21_Witness ==
    /\ lastEvent.op = "clear"
    /\ resumeFile = NoFile
    /\ ~useResumeMode
    /\ ~isParsingResume
    /\ isSubmitting

(***************************************************************************)
(* C22. Provided its call resolves, every pending extraction leaves the    *)
(* pending state: whenever the parsing flag is true it is eventually false *)
(* again, whatever the outcome of the call.                                *)
(***************************************************************************)
C22_PendingEventuallyEnds == isParsingResume ~> ~isParsingResume

C22_Witness ==
    /\ ResponseHandled
    /\ lastEvent.response.kind = "http"
    /\ lastEvent.response.ok
    /\ lastEvent.response.body = "invalid"
    /\ ~isParsingResume
    /\ inflight = {}

(***************************************************************************)
(* C23. With an extraction applied the file input still accepts a PDF      *)
(* ("Change Resume"): the selection starts one new extraction and leaves   *)
(* the technology list alone; when an extraction fails the form is back in *)
(* manual mode without a file, the technology list is the one it held      *)
(* before (the result applied earlier), and the manual controls are        *)
(* enabled.                                                                *)
(***************************************************************************)
C23_ChangeResumeFailureKeepsList ==
    [][/\ (CaptureState = "resumeApplied" =>
              \A file \in Files : IsPdf(file) => ENABLED handleResumeUpload(file))
       /\ ((/\ CaptureState = "resumeApplied"
            /\ lastEvent'.op = "select"
            /\ lastEvent'.file # NoFile
            /\ IsPdf(lastEvent'.file)) =>
              /\ CaptureState' = "resumePending"
              /\ resumeFile' = lastEvent'.file
              /\ inflight' = {Request(lastEvent'.file)}
              /\ technologies' = technologies)
       /\ ((/\ lastEvent'.op = "response"
            /\ ExtractionFailed(lastEvent'.response)) =>
              /\ CaptureState' = "manual"
              /\ resumeFile' = NoFile
              /\ technologies' = technologies
              /\ ManualControlsEnabled')]_vars

\* "Go" enters the list only through an applied extraction, and a clear would
\* have emptied the list: the failed extraction was started from resumeApplied
C23_Witness ==
    /\ ResponseHandled
    /\ ExtractionFailed(lastEvent.response)
    /\ technologies = <<"Go">>
    /\ CaptureState = "manual"
    /\ resumeFile = NoFile
    /\ RemoveOptions = {"Go"}

(***************************************************************************)
(* C24. At most one persistence call is outstanding: while a submission is *)
(* in flight the submit control is disabled and no submit happens before   *)
(* the call resolves; a file selection or a resume clear can still happen  *)
(* meanwhile.                                                              *)
(***************************************************************************)
C24_SinglePersistenceCall ==
    [][isSubmitting =>
        /\ ~SubmitEnabled
        /\ lastEvent'.op # "submit"
        /\ (~isParsingResume =>
               \A file \in Files : ENABLED handleResumeUpload(file))
        /\ ((resumeFile # NoFile /\ ~isParsingResume) => ENABLED clearResume)]_vars

C24_Witness ==
    /\ isSubmitting
    /\ lastEvent.op = "clear"
    /\ errors = {}
    /\ toast = "success"

(***************************************************************************)
(* The relay endpoint on its own: a request and an answer of the backend   *)
(* are drawn, then POST handles the request once.                          *)
(***************************************************************************)
\* response.json(), then the serialisation NextResponse.json applies: the
\* same JSON value, written without white space
Stringified(text) == [text EXCEPT !.spaced = FALSE]

\* an exception raised inside the try block
Thrown == RelayReply(TRUE, 0, EmptyText)

\* NextResponse.json(data, { status }): Response.json throws a TypeError for
\* a status that admits no body
NextResponseJson(data, status) ==
    IF status \in NullBodyStatuses THEN Thrown ELSE RelayReply(FALSE, status, data)

\* { error: message, details }
ErrorBody(message) == JsonText("object", "absent", <<>>, message, FALSE)

\* a relay that answers a backend error with the default status
BackendErrorReplyDefaultStatus(backend) ==
    NextResponseJson(ErrorBody("Failed to parse resume"), 200)

\* if (!response.ok) return NextResponse.json({...}, { status: response.status })
BackendErrorReply(backend) ==
    NextResponseJson(ErrorBody("Failed to parse resume"), backend.status)

\* the body of the try block
TryBlock(request, backend) ==
    IF request = "unreadable" THEN Thrown
    ELSE IF request # "file"
    THEN NextResponseJson(ErrorBody("No file provided"), 400)
    ELSE IF backend.kind = "reject" THEN Thrown
    ELSE IF ~Ok(backend.status) THEN BackendErrorReply(backend)
    ELSE IF backend.body.text = "invalid" THEN Thrown
    ELSE NextResponseJson(Stringified(backend.body), 200)

\* try { ... } catch (error) { return NextResponse.json({...}, { status: 500 }) }
POSTReply(request, backend) ==
    IF TryBlock(request, backend).thrown
    THEN NextResponseJson(ErrorBody("Internal server error"), 500)
    ELSE TryBlock(request, backend)

\* the reply as the form's fetch("/api/parse-resume") receives it
ClientResponse(reply) ==
    Resp("http", Ok(reply.status), reply.body.text, reply.body.field,
         reply.body.skills)

RelayInit ==
    /\ relay \in [request : RelayRequests, backend : BackendOutcomes, reply : {NoReply}]
    /\ name = NewFormValues.name
    /\ title = NewFormValues.title
    /\ experienceLevel = NewFormValues.experienceLevel
    /\ technologies = NewFormValues.technologies
    /\ description = NewFormValues.description
    /\ hasResume = NewFormValues.hasResume
    /\ resumeFile = NoFile
    /\ isParsingResume = FALSE
    /\ useResumeMode = FALSE
    /\ inflight = {}
    /\ toast = "none"
    /\ errors = {}
    /\ isSubmitting = FALSE
    /\ lastEvent = Event("mount", NoFile, NoResponse, FALSE, "")

POST ==
    /\ relay.request \in RelayRequests
    /\ relay.reply = NoReply
    /\ relay' = [relay EXCEPT !.reply = POSTReply(relay.request, relay.backend)]
    /\ lastEvent' = Event("relay", NoFile, NoResponse, FALSE, "")
    /\ UNCHANGED <<fields, technologies, hasResume, resumeState, inflight, toast,
                   submitState>>

RelayNext == POST

SpecRelay == RelayInit /\ [][RelayNext]_vars

\* the endpoint has answered
Replied == lastEvent.op = "relay"

\* formData.get("file") is a File
FileProvided == relay.request = "file"

\* the backend answered with a success status
BackendOk == relay.backend.kind = "http" /\ Ok(relay.backend.status)

\* the backend answered with a non-success status
BackendRefused == relay.backend.kind = "http" /\ ~Ok(relay.backend.status)

\* formData() throws, the fetch to the backend rejects, or response.json()
\* throws on the backend's body
RelayThrows ==
    \/ relay.request = "unreadable"
    \/ FileProvided /\ relay.backend.kind = "reject"
    \/ FileProvided /\ BackendOk /\ relay.backend.body.text = "invalid"

\* a file, a success status of the backend and a body that parses
RelaySucceeds == FileProvided /\ BackendOk /\ relay.backend.body.text # "invalid"

(***************************************************************************)
(* C25, as claimed. The relay answers with a success status only when a    *)
(* file was provided and the backend answered with a success status, and   *)
(* then returns the backend's JSON value; a missing file yields 400, every *)
(* non-success status of the backend is relayed as that status, a thrown   *)
(* error yields 500, and the form's handler throws on every reply to a     *)
(* failed relay.                                                           *)
(***************************************************************************)
C25_RelayStatuses ==
    Replied =>
        /\ Ok(relay.reply.status) =>
              /\ FileProvided
              /\ BackendOk
              /\ relay.reply.body = Stringified(relay.backend.body)
        /\ relay.request \in {"absent", "string"} => relay.reply.status = 400
        /\ (FileProvided /\ BackendRefused) =>
              relay.reply.status = relay.backend.status
        /\ RelayThrows => relay.reply.status = 500
        /\ ~RelaySucceeds =>
              /\ ~Ok(relay.reply.status)
              /\ ResponseThrows(ClientResponse(relay.reply))

(***************************************************************************)
(* C25, amended. As above, except that a non-success status of the backend *)
(* is relayed as that status only if a reply with a body can carry it; for *)
(* 304 building the reply throws and the relay answers 500.                *)
(***************************************************************************)
C25_RelayStatusesExceptNullBody ==
    Replied =>
        /\ Ok(relay.reply.status) =>
              /\ FileProvided
              /\ BackendOk
              /\ relay.reply.body = Stringified(relay.backend.body)
        /\ relay.request \in {"absent", "string"} => relay.reply.status = 400
        /\ (FileProvided /\ BackendRefused) =>
              relay.reply.status =
                  IF relay.backend.status \in NullBodyStatuses
                  THEN 500 ELSE relay.backend.status
        /\ RelayThrows => relay.reply.status = 500
        /\ ~RelaySucceeds =>
              /\ ~Ok(relay.reply.status)
              /\ ResponseThrows(ClientResponse(relay.reply))

C25_Witness ==
    /\ Replied
    /\ FileProvided
    /\ relay.backend.status = 304
    /\ relay.reply.status = 500
    /\ relay.reply.body.error = "Internal server error"

====
